---- MODULE Spec2Model ----
(***************************************************************************)
(* The chat client of src/app.py (Streamlit + MongoDB + Ollama): the       *)
(* conversation store adapter, the streaming chat request and the script   *)
(* runs of main() that make up the conversation controller.                *)
(*                                                                         *)
(* A text is a sequence of characters.  A script run of main() is one      *)
(* action: Streamlit runs the script of one session from top to bottom     *)
(* (and again after st.rerun()) before it accepts new input from that      *)
(* session; runs of different sessions interleave on the shared store.     *)
(***************************************************************************)
EXTENDS Naturals, Sequences, FiniteSets, TLC

\* ------------------------------------------------------------- bounds
MaxMsgs == 4     \* longest transcript a send may produce
MaxDocs == 1     \* conversations the followed session saves
MaxCallDocs == 2 \* documents the calls of the store functions insert
MaxTime == 3     \* readings of datetime.utcnow() stored
MaxLines == 3    \* lines of one streamed response body (StreamSpec)
MaxTextLen == 42 \* characters of a previewed message (PreviewSpec)

Sessions == {"s1", "s2"}

\* ------------------------------------------------- program constants
DEFAULT_MODEL == "llama3.2:1b"
OtherModel == "mistral"
Models == {DEFAULT_MODEL, OtherModel}
HistoryLimit == 20

\* None of current_conversation_id / load_conversation / a failed insert.
NoId == 0
\* "user_id" not in st.session_state
NoUser == "no user_id"
\* "session_id" not in st.session_state
NoSessionId == "no session_id"
\* the sessions' seeds, up to renaming the sessions: the code never sets
\* 'session_id', so a session has one only if its host page put it there
SessionIdChoices ==
    {[s \in Sessions |-> NoSessionId],
     [s \in Sessions |-> IF s = "s2" THEN "tab2" ELSE NoSessionId]}

\* what get_installed_models() may return in one run ([] on any failure)
InstalledLists == {<<>>, <<OtherModel>>}

Prompts == {<<"h", "i">>}
Tokens == {<<"A">>, <<"B">>}

VARIABLES
    conversations,            \* db.conversations: _id -> document
    nextId,                   \* the next ObjectId insert_one generates
    now,                      \* datetime.utcnow()
    db,                       \* db is not None (init_mongodb, cached for the process)
    session_id,               \* st.session_state.get('session_id'), per session
    user_id,                  \* st.session_state.user_id
    messages,                 \* st.session_state.messages
    current_conversation_id,  \* st.session_state.current_conversation_id
    selected_model,           \* st.session_state.selected_model
    load_conversation,        \* st.session_state.load_conversation
    sent,                     \* history: the sends made into the current transcript
    stream,                   \* history: the stream the last run consumed
    last                      \* history: the last run or call and what it returned

vars == <<conversations, nextId, now, db, session_id, user_id, messages,
          current_conversation_id, selected_model, load_conversation, sent,
          stream, last>>

Range(f) == {f[i] : i \in DOMAIN f}

\* ------------------------------------------------------ session identity
\* hashlib.md5(seed.encode()).hexdigest()[:16] on the seeds that occur
Md5Hex16(seed) ==
    CASE seed = "default" -> "c21f969b5f03d33d"
      [] seed = "tab2"    -> "1d2d1413ac076a95"

SessionInfo(s) == IF session_id[s] = NoSessionId THEN "default" ELSE session_id[s]

\* get_user_id(): computed once, then read from the session state
GetUserId(s) == IF user_id[s] = NoUser THEN Md5Hex16(SessionInfo(s)) ELSE user_id[s]

\* the session state after get_user_id()
Memo(s) == [user_id EXCEPT ![s] = GetUserId(s)]

\* ------------------------------------------------------------- messages
UserMessage(text) == [role |-> "user", content |-> text]
AssistantMessage(text) == [role |-> "assistant", content |-> text]

\* ------------------------------------------------- streaming chat request
\* One line of the response body, as the loop of generate_response sees it.
EmptyLine == [kind |-> "empty", content |-> <<>>]          \* b"" (keep-alive)
NotJsonLine == [kind |-> "notjson", content |-> <<>>]      \* json.loads raises
ScalarLine == [kind |-> "scalar", content |-> <<>>]        \* JSON, not an object: 42
ObjectLine == [kind |-> "object", content |-> <<>>]        \* {"done": true}
MessageLine == [kind |-> "message", content |-> <<>>]      \* {"message": {"role": ..}}
ContentLine(t) == [kind |-> "content", content |-> t]      \* {"message": {"content": t}}

Lines == {EmptyLine, NotJsonLine, ScalarLine, ObjectLine, MessageLine}
            \cup {ContentLine(t) : t \in Tokens}

\* The state of the loop: the accumulated text, the tokens yielded, the
\* st.error calls made, and whether an exception left the generator.
StreamStart == [full_response |-> <<>>, yielded |-> <<>>, errors |-> 0, raised |-> FALSE]

\* One iteration of `for line in response.iter_lines()`.
StreamLine(st, line) ==
    IF st.raised THEN st
    ELSE CASE line.kind = "empty"   -> st
           [] line.kind = "notjson" -> [st EXCEPT !.errors = @ + 1]
           [] line.kind = "scalar"  -> [st EXCEPT !.raised = TRUE]
           [] line.kind = "object"  -> st
           [] line.kind = "message" -> st
           [] line.kind = "content" ->
                [st EXCEPT !.full_response = @ \o line.content,
                           !.yielded = Append(@, line.content)]

RECURSIVE StreamLines(_, _)
StreamLines(st, lines) ==
    IF lines = <<>> THEN st
    ELSE StreamLines(StreamLine(st, Head(lines)), Tail(lines))

\* A response of the server: how the request ends ("ok", or the
\* RequestException requests.post / raise_for_status raise), the lines the
\* body delivers, and whether the connection breaks after them.
Response(open, lines, broken) == [open |-> open, lines |-> lines, broken |-> broken]

\* generate_response without line 203: the reply is never appended
GenerateResponseNoAppend(msgs, resp) ==
    IF resp.open # "ok"
    THEN [yielded |-> <<>>, full_response |-> <<>>, errors |-> 1,
          outcome |-> "request_error", messages |-> msgs, requests |-> 1]
    ELSE LET st == StreamLines(StreamStart, resp.lines) IN
         [yielded |-> st.yielded, full_response |-> st.full_response,
          errors |-> st.errors + (IF resp.broken /\ ~st.raised THEN 1 ELSE 0),
          outcome |-> IF st.raised THEN "uncaught"
                      ELSE IF resp.broken THEN "request_error" ELSE "completed",
          messages |-> msgs, requests |-> 1]

\* generate_response with line 203 in a finally clause: the text received
\* is appended however the request ended
GenerateResponseAppendAlways(msgs, resp) ==
    IF resp.open # "ok"
    THEN [yielded |-> <<>>, full_response |-> <<>>, errors |-> 1,
          outcome |-> "request_error",
          messages |-> Append(msgs, AssistantMessage(<<>>)), requests |-> 1]
    ELSE LET st == StreamLines(StreamStart, resp.lines) IN
         [yielded |-> st.yielded, full_response |-> st.full_response,
          errors |-> st.errors + (IF resp.broken /\ ~st.raised THEN 1 ELSE 0),
          outcome |-> IF st.raised THEN "uncaught"
                      ELSE IF resp.broken THEN "request_error" ELSE "completed",
          messages |-> Append(msgs, AssistantMessage(st.full_response)),
          requests |-> 1]

\* generate_response(model, messages), consumed to its end by st.write_stream:
\* the tokens yielded, the st.error calls, how the generator ended, the
\* transcript it leaves and the requests.post calls made (one: line 180 is
\* in no loop).
GenerateResponse(msgs, resp) ==
    IF resp.open # "ok"
    THEN [yielded |-> <<>>, full_response |-> <<>>, errors |-> 1,
          outcome |-> "request_error", messages |-> msgs, requests |-> 1]
    ELSE LET st == StreamLines(StreamStart, resp.lines) IN
         IF st.raised
         THEN [yielded |-> st.yielded, full_response |-> st.full_response,
               errors |-> st.errors, outcome |-> "uncaught", messages |-> msgs,
               requests |-> 1]
         ELSE IF resp.broken
         THEN [yielded |-> st.yielded, full_response |-> st.full_response,
               errors |-> st.errors + 1, outcome |-> "request_error", messages |-> msgs,
               requests |-> 1]
         ELSE [yielded |-> st.yielded, full_response |-> st.full_response,
               errors |-> st.errors, outcome |-> "completed",
               messages |-> Append(msgs, AssistantMessage(st.full_response)),
               requests |-> 1]

\* ------------------------------------------------- conversation store
\* What one call of a store function leaves: its return value, the
\* collection, the session's user_id memo, whether st.error was called and
\* whether a reading of datetime.utcnow() was stored (the clock is the count
\* of the readings stored: a later write carries a later time).
Outcome(ret, convs, uid, err, stamped) ==
    [ret |-> ret, convs |-> convs, uid |-> uid, err |-> err, stamped |-> stamped]

\* a document that records DEFAULT_MODEL whatever model was passed
NewConversationDefaultModel(id, uid, msgs, model, t) ==
    [id |-> id, user_id |-> uid, messages |-> msgs, model_used |-> DEFAULT_MODEL,
     created_at |-> t, updated_at |-> t]

\* the document save_conversation_to_db builds, with the _id insert_one adds
NewConversation(id, uid, msgs, model, t) ==
    [id |-> id, user_id |-> uid, messages |-> msgs, model_used |-> model,
     created_at |-> t, updated_at |-> t]

InsertOne(convs, doc) ==
    [d \in DOMAIN convs \cup {doc.id} |-> IF d = doc.id THEN doc ELSE convs[d]]

\* save_conversation_to_db(db, messages, model_used); `fail`: the store raises
SaveConversationToDb(s, msgs, model, fail) ==
    IF ~db THEN Outcome(NoId, conversations, user_id, FALSE, FALSE)
    ELSE IF fail THEN Outcome(NoId, conversations, Memo(s), TRUE, FALSE)
    ELSE Outcome(nextId,
                 InsertOne(conversations,
                           NewConversation(nextId, GetUserId(s), msgs, model, now)),
                 Memo(s), FALSE, TRUE)

\* the documents the filter of update_one matches: {"_id": ObjectId(id)}
UpdateFilter(convs, s, id) == {d \in DOMAIN convs : d = id}

\* an update that never replaces a transcript by a shorter one
SetMessagesIfLonger(doc, msgs, t) ==
    IF Len(msgs) >= Len(doc.messages)
    THEN [doc EXCEPT !.messages = msgs, !.updated_at = t]
    ELSE [doc EXCEPT !.updated_at = t]

\* an update that writes the document anew, created_at included
SetMessagesAnew(doc, msgs, t) ==
    [doc EXCEPT !.messages = msgs, !.updated_at = t, !.created_at = t]

\* {"$set": {"messages": messages, "updated_at": datetime.utcnow()}}
SetMessages(doc, msgs, t) == [doc EXCEPT !.messages = msgs, !.updated_at = t]

\* update_conversation_in_db(db, conversation_id, messages)
UpdateConversationInDb(s, id, msgs, fail) ==
    IF ~db \/ id = NoId THEN Outcome(FALSE, conversations, user_id, FALSE, FALSE)
    ELSE IF fail THEN Outcome(FALSE, conversations, user_id, TRUE, FALSE)
    ELSE Outcome(TRUE,
                 [d \in DOMAIN conversations |->
                     IF d \in UpdateFilter(conversations, s, id)
                     THEN SetMessages(conversations[d], msgs, now)
                     ELSE conversations[d]],
                 user_id, FALSE, UpdateFilter(conversations, s, id) # {})

\* the filter {"_id": ObjectId(id)}, without the owner
AnyOwnerFilter(convs, s, id) == {d \in DOMAIN convs : d = id}

\* the documents {"_id": ObjectId(id), "user_id": get_user_id()} matches
OwnedFilter(convs, s, id) ==
    {d \in DOMAIN convs : d = id /\ convs[d].user_id = GetUserId(s)}

\* load_conversation_by_id(db, conversation_id): <<>> is None, <<doc>> the document
LoadConversationById(s, id, fail) ==
    IF ~db THEN Outcome(<<>>, conversations, user_id, FALSE, FALSE)
    ELSE IF fail THEN Outcome(<<>>, conversations, Memo(s), TRUE, FALSE)
    ELSE Outcome(IF OwnedFilter(conversations, s, id) = {} THEN <<>>
                 ELSE <<conversations[id]>>,
                 conversations, Memo(s), FALSE, FALSE)

\* a delete that reports success whenever the store raised nothing
DeleteConversationAcknowledged(s, id, fail) ==
    IF ~db THEN Outcome(FALSE, conversations, user_id, FALSE, FALSE)
    ELSE IF fail THEN Outcome(FALSE, conversations, Memo(s), TRUE, FALSE)
    ELSE LET hit == OwnedFilter(conversations, s, id) IN
         Outcome(TRUE,
                 [d \in DOMAIN conversations \ hit |-> conversations[d]],
                 Memo(s), FALSE, FALSE)

\* delete_conversation(db, conversation_id): result.deleted_count > 0
DeleteConversation(s, id, fail) ==
    IF ~db THEN Outcome(FALSE, conversations, user_id, FALSE, FALSE)
    ELSE IF fail THEN Outcome(FALSE, conversations, Memo(s), TRUE, FALSE)
    ELSE LET hit == OwnedFilter(conversations, s, id) IN
         Outcome(hit # {},
                 [d \in DOMAIN conversations \ hit |-> conversations[d]],
                 Memo(s), FALSE, FALSE)

\* the projection {"_id": 1, "messages": 1, "model_used": 1, "created_at": 1}
Summary(doc) ==
    [id |-> doc.id, messages |-> doc.messages, model_used |-> doc.model_used,
     created_at |-> doc.created_at]

\* .sort("created_at", -1): the ids of `ids` newest first
RECURSIVE SortNewestFirst(_, _)
SortNewestFirst(convs, ids) ==
    IF ids = {} THEN <<>>
    ELSE LET newest == CHOOSE d \in ids :
                           \A e \in ids : convs[e].created_at <= convs[d].created_at
         IN <<newest>> \o SortNewestFirst(convs, ids \ {newest})

\* a limit that keeps the end of the sorted sequence
LimitFromEnd(seq, limit) ==
    IF Len(seq) <= limit THEN seq ELSE SubSeq(seq, Len(seq) - limit + 1, Len(seq))

\* .limit(limit)
Limit(seq, limit) == IF Len(seq) <= limit THEN seq ELSE SubSeq(seq, 1, limit)

\* load_conversation_history(db, limit)
LoadConversationHistory(s, limit, fail) ==
    IF ~db THEN Outcome(<<>>, conversations, user_id, FALSE, FALSE)
    ELSE IF fail THEN Outcome(<<>>, conversations, Memo(s), TRUE, FALSE)
    ELSE LET own == {d \in DOMAIN conversations :
                        conversations[d].user_id = GetUserId(s)}
             ids == Limit(SortNewestFirst(conversations, own), limit)
         IN Outcome([i \in 1..Len(ids) |-> Summary(conversations[ids[i]])],
                    conversations, Memo(s), FALSE, FALSE)

\* ------------------------------------------------------------ history
\* no stream was consumed
NoStream == [outcome |-> "none", open |-> "none", lines |-> <<>>, broken |-> FALSE,
             yielded |-> <<>>, full_response |-> <<>>, errors |-> 0, requests |-> 0]

\* the stream a send consumed
Consumed(resp, g) ==
    [outcome |-> g.outcome, open |-> resp.open, lines |-> resp.lines,
     broken |-> resp.broken, yielded |-> g.yielded,
     full_response |-> g.full_response, errors |-> g.errors,
     requests |-> g.requests]

\* the record of one run or call: the handler ("call": a store function
\* called on its own), its session, the store function called ("none" if
\* none was) with the id passed, whether it reported an error and what it
\* returned (a value of the call's own kind)
Record(op, s, call, id, ret, err) ==
    [op |-> op, session |-> s, call |-> call, id |-> id, err |-> err,
     returned |-> ret]

\* no send has been made into an empty transcript
NoSends == [n |-> 0, completed |-> 0, fresh |-> TRUE]
\* the transcript was loaded from the store: its sends are not counted
Loaded == [n |-> 0, completed |-> 0, fresh |-> FALSE]

\* ---------------------------------------------------------------- Init
\* main(), lines 215-223, in every session; an empty collection.  Nothing
\* in the program sets 'session_id'.
Init ==
    /\ conversations = <<>>
    /\ nextId = 1
    /\ now = 0
    /\ db \in BOOLEAN
    /\ session_id = [s \in Sessions |-> NoSessionId]
    /\ user_id = [s \in Sessions |-> NoUser]
    /\ messages = [s \in Sessions |-> <<>>]
    /\ current_conversation_id = [s \in Sessions |-> NoId]
    /\ selected_model = [s \in Sessions |-> DEFAULT_MODEL]
    /\ load_conversation = [s \in Sessions |-> NoId]
    /\ sent = [s \in Sessions |-> NoSends]
    /\ stream = NoStream
    /\ last = Record("init", "none", "none", NoId, FALSE, FALSE)

\* ------------------------------------------- calls of the store functions
CallSave(s, msgs, model, fail) ==
    LET o == SaveConversationToDb(s, msgs, model, fail) IN
    /\ o.stamped => now < MaxTime
    /\ o.ret # NoId => nextId <= MaxCallDocs
    /\ conversations' = o.convs
    /\ now' = IF o.stamped THEN now + 1 ELSE now
    /\ nextId' = IF o.ret # NoId THEN nextId + 1 ELSE nextId
    /\ user_id' = o.uid
    /\ last' = Record("call", s, "create", NoId, o.ret, o.err)
    /\ stream' = NoStream
    /\ UNCHANGED <<db, session_id, messages, current_conversation_id,
                   selected_model, load_conversation, sent>>

CallUpdate(s, id, msgs, fail) ==
    LET o == UpdateConversationInDb(s, id, msgs, fail) IN
    /\ o.stamped => now < MaxTime
    /\ conversations' = o.convs
    /\ now' = IF o.stamped THEN now + 1 ELSE now
    /\ user_id' = o.uid
    /\ last' = Record("call", s, "update", id, o.ret, o.err)
    /\ stream' = NoStream
    /\ UNCHANGED <<nextId, db, session_id, messages, current_conversation_id,
                   selected_model, load_conversation, sent>>

CallGet(s, id, fail) ==
    LET o == LoadConversationById(s, id, fail) IN
    /\ conversations' = o.convs
    /\ user_id' = o.uid
    /\ last' = Record("call", s, "get", id, o.ret, o.err)
    /\ stream' = NoStream
    /\ UNCHANGED <<nextId, now, db, session_id, messages, current_conversation_id,
                   selected_model, load_conversation, sent>>

CallDelete(s, id, fail) ==
    LET o == DeleteConversation(s, id, fail) IN
    /\ conversations' = o.convs
    /\ user_id' = o.uid
    /\ last' = Record("call", s, "delete", id, o.ret, o.err)
    /\ stream' = NoStream
    /\ UNCHANGED <<nextId, now, db, session_id, messages, current_conversation_id,
                   selected_model, load_conversation, sent>>

CallList(s, limit, fail) ==
    LET o == LoadConversationHistory(s, limit, fail) IN
    /\ conversations' = o.convs
    /\ user_id' = o.uid
    /\ last' = Record("call", s, "list", limit, o.ret, o.err)
    /\ stream' = NoStream
    /\ UNCHANGED <<nextId, now, db, session_id, messages, current_conversation_id,
                   selected_model, load_conversation, sent>>

\* the arguments the calls are made with
Transcripts ==
    {<<UserMessage(p)>> : p \in Prompts}
        \cup {<<UserMessage(p), AssistantMessage(<<"A">>)>> : p \in Prompts}
Ids == 1..MaxCallDocs
Limits == {1, HistoryLimit}

AdapterNext ==
    \E s \in Sessions, fail \in BOOLEAN :
        \/ \E msgs \in Transcripts, model \in Models : CallSave(s, msgs, model, fail)
        \/ \E id \in Ids \cup {NoId}, msgs \in Transcripts : CallUpdate(s, id, msgs, fail)
        \/ \E id \in Ids : CallGet(s, id, fail)
        \/ \E id \in Ids : CallDelete(s, id, fail)
        \/ \E limit \in Limits : CallList(s, limit, fail)

\* the store functions are also called under identities that differ
AdapterInit ==
    /\ conversations = <<>>
    /\ nextId = 1
    /\ now = 0
    /\ db \in BOOLEAN
    /\ session_id \in SessionIdChoices
    /\ user_id = [s \in Sessions |-> NoUser]
    /\ messages = [s \in Sessions |-> <<>>]
    /\ current_conversation_id = [s \in Sessions |-> NoId]
    /\ selected_model = [s \in Sessions |-> DEFAULT_MODEL]
    /\ load_conversation = [s \in Sessions |-> NoId]
    /\ sent = [s \in Sessions |-> NoSends]
    /\ stream = NoStream
    /\ last = Record("init", "none", "none", NoId, FALSE, FALSE)

AdapterSpec == AdapterInit /\ [][AdapterNext]_vars

\* ------------------------------------------------- script runs of main()
\* the sidebar's model widget when the user leaves it alone (lines 245-263):
\* the selectbox falls back to the first installed model
SelectedModel(selected, installed) ==
    IF installed # <<>>
    THEN IF selected \in Range(installed) THEN selected ELSE installed[1]
    ELSE selected

\* what the user can pick in the model widget
Selectable(installed) == IF installed # <<>> THEN Range(installed) ELSE Models

\* the sidebar's history list calls get_user_id() whenever there is a store
RunMemo(s) == IF db THEN Memo(s) ELSE user_id

\* the chat input is accepted while the transcript has room for an exchange
CanSend(s) == Len(messages[s]) + 2 <= MaxMsgs

\* A run in which the user only changes the model widget (or nothing).
Rerun(s, installed, pick) ==
    /\ load_conversation[s] = NoId
    /\ selected_model' = [selected_model EXCEPT ![s] = pick]
    /\ user_id' = RunMemo(s)
    /\ last' = Record("rerun", s, "none", NoId, FALSE, FALSE)
    /\ stream' = NoStream
    /\ UNCHANGED <<conversations, nextId, now, db, session_id, messages,
                   current_conversation_id, load_conversation, sent>>

\* A click on a history button (lines 303-325): the button exists only for
\* a conversation this run's list holds.
ClickHistory(s, installed, id) ==
    LET o == LoadConversationHistory(s, HistoryLimit, FALSE) IN
    /\ load_conversation[s] = NoId
    /\ \E i \in 1..Len(o.ret) : o.ret[i].id = id
    /\ load_conversation' = [load_conversation EXCEPT ![s] = id]
    /\ selected_model' =
          [selected_model EXCEPT ![s] = SelectedModel(selected_model[s], installed)]
    /\ user_id' = o.uid
    /\ last' = Record("click", s, "none", id, FALSE, FALSE)
    /\ stream' = NoStream
    /\ UNCHANGED <<conversations, nextId, now, db, session_id, messages,
                   current_conversation_id, sent>>

\* The run after the click (lines 225-234), and the run st.rerun() starts.
LoadConversation(s, installed, fail) ==
    LET id == load_conversation[s]
        o == LoadConversationById(s, id, fail)
        found == o.ret # <<>>
    IN
    /\ id # NoId
    /\ messages' = IF found THEN [messages EXCEPT ![s] = o.ret[1].messages]
                   ELSE messages
    /\ current_conversation_id' =
          IF found THEN [current_conversation_id EXCEPT ![s] = id]
          ELSE current_conversation_id
    /\ selected_model' =
          [selected_model EXCEPT ![s] =
              SelectedModel(IF found THEN o.ret[1].model_used ELSE selected_model[s],
                            installed)]
    /\ load_conversation' = [load_conversation EXCEPT ![s] = NoId]
    /\ sent' = IF found
               THEN [sent EXCEPT ![s] = Loaded]
               ELSE sent
    /\ user_id' = RunMemo(s)
    /\ last' = Record("load", s, "get", id, found, o.err)
    /\ stream' = NoStream
    /\ UNCHANGED <<conversations, nextId, now, db, session_id>>

\* "Save Chat" without line 288: the id of the insert is not kept
ActiveIdKept(id, ret) == id

\* the active id after "Save Chat": the id a successful insert returned
\* (lines 287-288), else the one there was
ActiveIdAfterSave(id, ret) == IF id = NoId /\ ret # NoId THEN ret ELSE id

\* A click on "Save Chat" (lines 268-289).
SaveChat(s, installed, fail) ==
    LET model == SelectedModel(selected_model[s], installed)
        id == current_conversation_id[s]
        o == IF id # NoId
             THEN UpdateConversationInDb(s, id, messages[s], fail)
             ELSE SaveConversationToDb(s, messages[s], model, fail)
        created == id = NoId /\ o.ret # NoId
    IN
    /\ load_conversation[s] = NoId
    /\ messages[s] # <<>> /\ db
    /\ o.stamped => now < MaxTime
    /\ created => nextId <= MaxDocs
    /\ conversations' = o.convs
    /\ now' = IF o.stamped THEN now + 1 ELSE now
    /\ nextId' = IF created THEN nextId + 1 ELSE nextId
    /\ current_conversation_id' =
          [current_conversation_id EXCEPT ![s] = ActiveIdAfterSave(id, o.ret)]
    /\ selected_model' = [selected_model EXCEPT ![s] = model]
    /\ user_id' = RunMemo(s)
    /\ last' = Record("save", s, IF id # NoId THEN "update" ELSE "create", id,
                      o.ret, o.err)
    /\ stream' = NoStream
    /\ UNCHANGED <<db, session_id, messages, load_conversation, sent>>

\* "Delete" without line 295: the transcript stays
TranscriptKept(msgs, success) == msgs

\* "Delete" that clears the transcript whatever the delete returned
TranscriptCleared(msgs, success) == <<>>

\* the transcript after "Delete": cleared if the delete succeeded (lines 295-296)
TranscriptAfterDelete(msgs, success) == IF success THEN <<>> ELSE msgs

\* A click on "Delete" (lines 291-299).
DeleteChat(s, installed, fail) ==
    LET id == current_conversation_id[s]
        o == IF id # NoId THEN DeleteConversation(s, id, fail)
             ELSE Outcome(FALSE, conversations, user_id, FALSE, FALSE)
        success == id # NoId /\ o.ret
    IN
    /\ load_conversation[s] = NoId
    /\ messages[s] # <<>> /\ db
    /\ conversations' = o.convs
    /\ messages' = [messages EXCEPT ![s] = TranscriptAfterDelete(@, success)]
    /\ current_conversation_id' =
          IF success THEN [current_conversation_id EXCEPT ![s] = NoId]
          ELSE current_conversation_id
    /\ sent' = IF success THEN [sent EXCEPT ![s] = NoSends] ELSE sent
    /\ selected_model' =
          [selected_model EXCEPT ![s] = SelectedModel(selected_model[s], installed)]
    /\ user_id' = RunMemo(s)
    /\ last' = Record("delete_active", s, IF id # NoId THEN "delete" ELSE "none", id,
                      o.ret, o.err)
    /\ stream' = NoStream
    /\ UNCHANGED <<nextId, now, db, session_id, load_conversation>>

\* "New Chat" without line 336: the active id stays
NewChatKeepsId(s, installed) ==
    /\ load_conversation[s] = NoId
    /\ messages' = [messages EXCEPT ![s] = <<>>]
    /\ sent' = [sent EXCEPT ![s] = NoSends]
    /\ selected_model' =
          [selected_model EXCEPT ![s] = SelectedModel(selected_model[s], installed)]
    /\ user_id' = RunMemo(s)
    /\ last' = Record("reset", s, "none", NoId, FALSE, FALSE)
    /\ stream' = NoStream
    /\ UNCHANGED <<conversations, nextId, now, db, session_id, load_conversation,
                   current_conversation_id>>

\* A click on "New Chat" (lines 333-338).
NewChat(s, installed) ==
    /\ load_conversation[s] = NoId
    /\ messages' = [messages EXCEPT ![s] = <<>>]
    /\ current_conversation_id' = [current_conversation_id EXCEPT ![s] = NoId]
    /\ sent' = [sent EXCEPT ![s] = NoSends]
    /\ selected_model' =
          [selected_model EXCEPT ![s] = SelectedModel(selected_model[s], installed)]
    /\ user_id' = RunMemo(s)
    /\ last' = Record("reset", s, "none", NoId, FALSE, FALSE)
    /\ stream' = NoStream
    /\ UNCHANGED <<conversations, nextId, now, db, session_id, load_conversation>>

\* an auto-save that stores the new exchange only
AutoSaveExchangeOnly(before, g) == SubSeq(g.messages, Len(before), Len(g.messages))

\* an auto-save made before the stream is drained
AutoSaveBeforeStream(before, g) == before

\* the transcript the auto-save passes to the update (lines 375-381): the
\* session's messages once st.write_stream has returned
AutoSaveTranscript(before, g) == g.messages

\* A prompt entered in the chat input (lines 361-381).
Send(s, installed, prompt, resp, fail) ==
    LET before == Append(messages[s], UserMessage(prompt))
        g == GenerateResponse(before, resp)
        id == current_conversation_id[s]
        autosave == g.outcome # "uncaught" /\ db /\ id # NoId
        o == IF autosave
             THEN UpdateConversationInDb(s, id, AutoSaveTranscript(before, g), fail)
             ELSE Outcome(FALSE, conversations, user_id, FALSE, FALSE)
    IN
    /\ load_conversation[s] = NoId
    /\ CanSend(s)
    /\ o.stamped => now < MaxTime
    /\ messages' = [messages EXCEPT ![s] = g.messages]
    /\ conversations' = o.convs
    /\ now' = IF o.stamped THEN now + 1 ELSE now
    /\ sent' = IF sent[s].fresh
               THEN [sent EXCEPT ![s] =
                       [n |-> @.n + 1,
                        completed |-> @.completed
                                        + (IF g.outcome = "completed" THEN 1 ELSE 0),
                        fresh |-> TRUE]]
               ELSE sent
    /\ selected_model' =
          [selected_model EXCEPT ![s] = SelectedModel(selected_model[s], installed)]
    /\ user_id' = RunMemo(s)
    /\ last' = Record("send", s, IF autosave THEN "update" ELSE "none", id,
                      o.ret, o.err)
    /\ stream' = Consumed(resp, g)
    /\ UNCHANGED <<nextId, db, session_id, current_conversation_id, load_conversation>>

\* the responses the server gives in Spec
Responses ==
    {Response("ok", <<ContentLine(<<"A">>), NotJsonLine, ContentLine(<<"B">>)>>, FALSE),
     Response("ok", <<ScalarLine>>, FALSE),
     Response("ConnectionError", <<>>, FALSE)}

\* whether the store raises in a run: only a run that calls it can tell
Failures(called) == IF called THEN BOOLEAN ELSE {FALSE}

\* The session whose runs are followed handler by handler.  The other
\* sessions are followed in what they do to the conversations in the store:
\* a controller updates and deletes the conversation it holds, which is one
\* it created or loaded, hence one of its own (a call on a document that is
\* gone leaves the store as it is).
Observed == {"s1"}
Others == Sessions \ Observed

\* the transcript the other sessions hold
OtherTranscript == <<UserMessage(<<"h", "i">>), AssistantMessage(<<"A">>)>>

Owned(s) == {d \in DOMAIN conversations : conversations[d].user_id = GetUserId(s)}

OtherNext ==
    \E s \in Others :
        \/ \E id \in Owned(s) : CallUpdate(s, id, OtherTranscript, FALSE)
        \/ \E id \in Owned(s) : CallDelete(s, id, FALSE)

RunNext ==
    \E s \in Observed, installed \in InstalledLists :
        \/ \E pick \in Selectable(installed) : Rerun(s, installed, pick)
        \/ \E id \in 1..MaxDocs : ClickHistory(s, installed, id)
        \/ \E fail \in BOOLEAN : LoadConversation(s, installed, fail)
        \/ \E fail \in BOOLEAN : SaveChat(s, installed, fail)
        \/ \E fail \in Failures(current_conversation_id[s] # NoId) :
              DeleteChat(s, installed, fail)
        \/ NewChat(s, installed)
        \/ \E prompt \in Prompts, resp \in Responses,
               fail \in Failures(db /\ current_conversation_id[s] # NoId) :
              Send(s, installed, prompt, resp, fail)

Next == RunNext \/ OtherNext

\* Every response body of up to MaxLines lines, streamed into a new chat.
LineSeqs == UNION {[1..n -> Lines] : n \in 0..MaxLines}
StreamResponses ==
    {Response("ok", lines, broken) : lines \in LineSeqs, broken \in BOOLEAN}
        \cup {Response(e, <<>>, FALSE) : e \in {"ConnectionError", "HTTPError"}}

StreamNext ==
    \E s \in Observed :
        \/ \E prompt \in Prompts, resp \in StreamResponses :
              /\ messages[s] = <<>>
              /\ Send(s, <<>>, prompt, resp, FALSE)
        \/ NewChat(s, <<>>)

StreamSpec == Init /\ [][StreamNext]_vars

\* Calls of the store functions in which the store raises (or, in a process
\* without a store, returns at once), next to the runs of main().
FailedCall ==
    \E s \in Sessions, id \in 1..MaxDocs :
        \/ CallSave(s, OtherTranscript, DEFAULT_MODEL, TRUE)
        \/ CallUpdate(s, id, OtherTranscript, TRUE)
        \/ CallGet(s, id, TRUE)
        \/ CallDelete(s, id, TRUE)
        \/ CallList(s, HistoryLimit, TRUE)

FailureNext == Next \/ FailedCall

FailureSpec == Init /\ [][FailureNext]_vars

Spec == Init /\ [][Next]_vars

\* one session alone on the store
SingleSpec == Init /\ [][RunNext]_vars

\* ------------------------------------------------ previews of the sidebar
\* msg["content"][:40] in app.py, msg["content"][:30] in chat_app.py
PreviewLength == 40
LabelLength == 30

Ellipsis == <<".", ".", ".">>

\* content[:n]
Slice(content, n) == SubSeq(content, 1, IF Len(content) < n THEN Len(content) ELSE n)

\* a preview that marks a message of exactly n characters as truncated
PreviewMarkedAtLength(content, n) ==
    Slice(content, n) \o (IF Len(content) >= n THEN Ellipsis ELSE <<>>)

\* content[:n] + ("..." if len(content) > n else "")
Preview(content, n) ==
    Slice(content, n) \o (IF Len(content) > n THEN Ellipsis ELSE <<>>)

\* preview = "New Conversation"
DefaultPreview ==
    <<"N", "e", "w", " ", "C", "o", "n", "v", "e", "r", "s", "a", "t", "i", "o", "n">>

\* the positions of the user messages
UserIndexes(msgs) == {i \in 1..Len(msgs) : msgs[i].role = "user"}

\* app.py, lines 310-314: the preview of a listed conversation
ConversationPreview(msgs) ==
    IF UserIndexes(msgs) = {} THEN DefaultPreview
    ELSE LET first == CHOOSE i \in UserIndexes(msgs) :
                          \A j \in UserIndexes(msgs) : i <= j
         IN Preview(msgs[first].content, PreviewLength)

\* chat_app.py, lines 113-116: a label for each user message, by its index
HistoryLabels(msgs) ==
    [i \in UserIndexes(msgs) |-> Preview(msgs[i].content, LabelLength)]

\* the sidebar of app.py draws the history list (lines 305-325)
RenderHistory(s) ==
    LET o == LoadConversationHistory(s, HistoryLimit, FALSE) IN
    /\ user_id' = o.uid
    /\ last' = Record("history", s, "list", NoId,
                      [i \in 1..Len(o.ret) |-> ConversationPreview(o.ret[i].messages)],
                      o.err)
    /\ stream' = NoStream
    /\ UNCHANGED <<conversations, nextId, now, db, session_id, messages,
                   current_conversation_id, selected_model, load_conversation, sent>>

\* the sidebar of chat_app.py draws the history list (lines 112-118)
RenderLabels(s) ==
    /\ last' = Record("labels", s, "none", NoId, HistoryLabels(messages[s]), FALSE)
    /\ stream' = NoStream
    /\ UNCHANGED <<conversations, nextId, now, db, session_id, user_id, messages,
                   current_conversation_id, selected_model, load_conversation, sent>>

\* the messages previewed: up to MaxTextLen characters
Text(n, c) == [i \in 1..n |-> IF i % 2 = 0 THEN c ELSE "a"]
Texts == {Text(n, c) : n \in 0..MaxTextLen, c \in {"a", "."}}

\* the transcripts previewed, around a message t
Previewed(t) ==
    {<<UserMessage(t)>>,
     <<UserMessage(t), AssistantMessage(<<"A">>)>>,
     <<UserMessage(<<"h", "i">>), AssistantMessage(t), UserMessage(t)>>}

\* a session holding a transcript that is also the one conversation stored
PreviewInit ==
    \E t \in Texts : \E msgs \in Previewed(t) :
        /\ conversations =
              InsertOne(<<>>, NewConversation(1, Md5Hex16("default"), msgs,
                                              DEFAULT_MODEL, 0))
        /\ nextId = 2
        /\ now = 1
        /\ db = TRUE
        /\ session_id = [s \in Sessions |-> NoSessionId]
        /\ user_id = [s \in Sessions |-> NoUser]
        /\ messages = [s \in Sessions |-> IF s \in Observed THEN msgs ELSE <<>>]
        /\ current_conversation_id = [s \in Sessions |-> NoId]
        /\ selected_model = [s \in Sessions |-> DEFAULT_MODEL]
        /\ load_conversation = [s \in Sessions |-> NoId]
        /\ sent = [s \in Sessions |-> Loaded]
        /\ stream = NoStream
        /\ last = Record("init", "none", "none", NoId, FALSE, FALSE)

PreviewNext == \E s \in Observed : RenderHistory(s) \/ RenderLabels(s)

PreviewSpec == PreviewInit /\ [][PreviewNext]_vars

\* ------------------------------------------------------------ chat_app.py
\* chat_app.py keeps the transcript in the session only: no store, no ids.
ChatPrompts == {<<"h", "i">>, <<"y", "o">>}

\* messages[selected_index:selected_index+2], selected_index counted from 0
SliceTwo(msgs, i) ==
    SubSeq(msgs, i + 1, IF i + 2 <= Len(msgs) THEN i + 2 ELSE Len(msgs))

\* A prompt entered in the chat input (lines 144-155).
ChatAppSend(s, prompt, resp) ==
    LET g == GenerateResponse(Append(messages[s], UserMessage(prompt)), resp) IN
    /\ CanSend(s)
    /\ messages' = [messages EXCEPT ![s] = g.messages]
    /\ sent' = IF sent[s].fresh
               THEN [sent EXCEPT ![s] =
                       [n |-> @.n + 1,
                        completed |-> @.completed
                                        + (IF g.outcome = "completed" THEN 1 ELSE 0),
                        fresh |-> TRUE]]
               ELSE sent
    /\ last' = Record("send", s, "none", NoId, FALSE, FALSE)
    /\ stream' = Consumed(resp, g)
    /\ UNCHANGED <<conversations, nextId, now, db, session_id, user_id,
                   current_conversation_id, selected_model, load_conversation>>

\* A click on the history button of the user message at index i (lines
\* 113-118) and the run st.rerun() starts at once (lines 82-85).
SelectHistory(s, i) ==
    /\ i + 1 \in UserIndexes(messages[s])
    /\ messages' = [messages EXCEPT ![s] = SliceTwo(@, i)]
    /\ sent' = [sent EXCEPT ![s] = Loaded]
    /\ last' = Record("select", s, "none", i, FALSE, FALSE)
    /\ stream' = NoStream
    /\ UNCHANGED <<conversations, nextId, now, db, session_id, user_id,
                   current_conversation_id, selected_model, load_conversation>>

\* A click on "Reset Conversation" (lines 125-128).
ResetConversation(s) ==
    /\ messages' = [messages EXCEPT ![s] = <<>>]
    /\ sent' = [sent EXCEPT ![s] = NoSends]
    /\ last' = Record("reset", s, "none", NoId, FALSE, FALSE)
    /\ stream' = NoStream
    /\ UNCHANGED <<conversations, nextId, now, db, session_id, user_id,
                   current_conversation_id, selected_model, load_conversation>>

ChatAppInit == Init /\ ~db

ChatAppNext ==
    \E s \in Observed :
        \/ \E prompt \in ChatPrompts, resp \in Responses : ChatAppSend(s, prompt, resp)
        \/ \E i \in 0..(MaxMsgs - 1) : SelectHistory(s, i)
        \/ ResetConversation(s)

ChatAppSpec == ChatAppInit /\ [][ChatAppNext]_vars

\* ================================================================ claims
\* a call of a store function made by session s (the step's record is last')
Called(s, call) == last'.op = "call" /\ last'.session = s /\ last'.call = call

Alternating(msgs) ==
    \A i \in 1..Len(msgs) : msgs[i].role = IF i % 2 = 1 THEN "user" ELSE "assistant"

\* ------------------------------------------------------------------ C1
\* C1 as stated: after N sends into a transcript that started empty, the
\* transcript has 2N messages, user and assistant alternating from a user
\* message.
C1_AsStated ==
    \A s \in Sessions :
        sent[s].fresh =>
            /\ Len(messages[s]) = 2 * sent[s].n
            /\ Alternating(messages[s])

\* C1, amended: after N sends into a transcript that started empty, the
\* transcript has N messages plus one for every send whose stream was
\* consumed to completion; if all N were, it has 2N messages, user and
\* assistant alternating from a user message.
C1_SendAppends ==
    \A s \in Sessions :
        sent[s].fresh =>
            /\ Len(messages[s]) = sent[s].n + sent[s].completed
            /\ sent[s].completed = sent[s].n =>
                  /\ Len(messages[s]) = 2 * sent[s].n
                  /\ Alternating(messages[s])

\* two sends, both completed
C1_Witness ==
    \E s \in Sessions :
        /\ sent[s].fresh /\ sent[s].n = 2 /\ sent[s].completed = 2
        /\ Len(messages[s]) = 4
        /\ last.op = "send"

\* ------------------------------------------------------------------ C2
\* C2 as stated: an update on an id that names no stored document, or a
\* document another identity owns, returns false and leaves every stored
\* document as it was.
C2_AsStated ==
    [][\A s \in Sessions, id \in Ids :
          (/\ Called(s, "update") /\ last'.id = id
           /\ \/ id \notin DOMAIN conversations
              \/ conversations[id].user_id # GetUserId(s))
          => last'.returned = FALSE /\ conversations' = conversations]_vars

\* ------------------------------------------------------------------ C3
\* C3: for a stored conversation and a session of another identity, get
\* returns absent, delete returns false and leaves the document stored, and
\* list returns no summary of it.
C3_Isolation ==
    [][\A s \in Sessions, id \in DOMAIN conversations :
          conversations[id].user_id # GetUserId(s) =>
              /\ Called(s, "get") /\ last'.id = id => last'.returned = <<>>
              /\ Called(s, "delete") /\ last'.id = id =>
                    /\ last'.returned = FALSE
                    /\ id \in DOMAIN conversations'
                    /\ conversations'[id] = conversations[id]
              /\ Called(s, "list") =>
                    \A i \in 1..Len(last'.returned) : last'.returned[i].id # id]_vars

\* another identity's delete was refused and the document is still stored
C3_Witness ==
    /\ last.op = "call" /\ last.call = "delete" /\ ~last.err
    /\ last.returned = FALSE
    /\ last.id \in DOMAIN conversations
    /\ user_id[last.session] # NoUser
    /\ conversations[last.id].user_id # user_id[last.session]

\* ------------------------------------------------------------------ C4
\* C4: a create that returns an id stores under it the messages and the
\* model passed; no call but an update or a delete of that id changes the
\* document; and a get of it by its owner returns the document stored.
\* Hence a get after a create with no update or delete in between returns
\* the messages and the model of the create.  (A call in which the store
\* raises returns absent: C11.)
C4_RoundTrip ==
    [][/\ \A s \in Sessions, msgs \in Transcripts, model \in Models :
            (/\ Called(s, "create") /\ last'.returned # NoId
             /\ CallSave(s, msgs, model, FALSE)) =>
                /\ last'.returned \notin DOMAIN conversations
                /\ last'.returned \in DOMAIN conversations'
                /\ conversations'[last'.returned].user_id = GetUserId(s)
                /\ conversations'[last'.returned].messages = msgs
                /\ conversations'[last'.returned].model_used = model
       /\ \A id \in DOMAIN conversations :
            ~(last'.op = "call" /\ last'.call \in {"update", "delete"} /\ last'.id = id)
                => id \in DOMAIN conversations' /\ conversations'[id] = conversations[id]
       /\ \A s \in Sessions, id \in DOMAIN conversations :
            (/\ Called(s, "get") /\ last'.id = id /\ ~last'.err /\ db
             /\ conversations[id].user_id = GetUserId(s))
            => last'.returned = <<conversations[id]>>]_vars

\* a get returned a document that was never updated
C4_Witness ==
    /\ last.op = "call" /\ last.call = "get"
    /\ last.returned # <<>>
    /\ last.returned[1].messages # <<>>
    /\ last.returned[1].created_at = last.returned[1].updated_at
    /\ last.returned[1].model_used = OtherModel

\* ------------------------------------------------------------------ C5
\* C5: delete returns true exactly when a document with the id, owned by
\* the caller, was stored and the call removed it, and then removes nothing
\* else; a delete that returns false leaves the store as it was; a second
\* delete of the same id by the same session returns false.
C5_Delete ==
    [][\A s \in Sessions, id \in Ids :
          Called(s, "delete") /\ last'.id = id =>
              /\ last'.returned = TRUE <=>
                    /\ id \in DOMAIN conversations
                    /\ conversations[id].user_id = GetUserId(s)
                    /\ id \notin DOMAIN conversations'
              /\ last'.returned = TRUE =>
                    conversations' =
                        [d \in DOMAIN conversations \ {id} |-> conversations[d]]
              /\ last'.returned = FALSE => conversations' = conversations
              /\ (/\ last.op = "call" /\ last.call = "delete" /\ last.session = s
                  /\ last.id = id /\ last.returned = TRUE)
                 => last'.returned = FALSE]_vars

\* a delete of an id that was stored and is gone returned false
C5_Witness ==
    /\ last.op = "call" /\ last.call = "delete" /\ ~last.err /\ db
    /\ last.returned = FALSE
    /\ last.id < nextId
    /\ last.id \notin DOMAIN conversations

\* ------------------------------------------------------------------ C6
\* the content fragments of the lines that carry message.content, in order
RECURSIVE ContentOf(_)
ContentOf(lines) ==
    IF lines = <<>> THEN <<>>
    ELSE (IF Head(lines).kind = "content" THEN <<Head(lines).content>> ELSE <<>>)
             \o ContentOf(Tail(lines))

RECURSIVE Concat(_)
Concat(texts) == IF texts = <<>> THEN <<>> ELSE Head(texts) \o Concat(Tail(texts))

\* C6 as stated: for every sequence of response lines the fragments
\* yielded are the message.content values of the lines that parse and carry
\* one, in order; the other lines yield nothing and do not halt the
\* sequence; the accumulated text is the concatenation of the fragments.
C6_AsStated ==
    last.op = "send" /\ stream.open = "ok" =>
        /\ stream.yielded = ContentOf(stream.lines)
        /\ stream.full_response = Concat(stream.yielded)
        /\ ~stream.broken => stream.outcome = "completed"

\* ------------------------------------------------------------------ C7
\* the last two messages are the prompt's exchange: a user message and the
\* assistant message holding the text streamed
EndsWithExchange(msgs, reply) ==
    /\ Len(msgs) >= 2
    /\ msgs[Len(msgs) - 1].role = "user"
    /\ msgs[Len(msgs)] = AssistantMessage(reply)

C8_Save ==
    [][\A s \in Sessions :
          last'.op = "save" /\ last'.session = s =>
              LET id == current_conversation_id[s] IN
              IF id = NoId
              THEN /\ last'.call = "create"
                   /\ IF last'.returned # NoId
                      THEN /\ current_conversation_id'[s] = last'.returned
                           /\ last'.returned \notin DOMAIN conversations
                           /\ DOMAIN conversations' =
                                 DOMAIN conversations \cup {last'.returned}
                           /\ conversations'[last'.returned].messages = messages[s]
                           /\ messages'[s] # <<>>
                      ELSE /\ current_conversation_id'[s] = NoId
                           /\ conversations' = conversations
              ELSE /\ last'.call = "update" /\ last'.id = id
                   /\ DOMAIN conversations' = DOMAIN conversations
                   /\ current_conversation_id'[s] = id]_vars

\* a second save updated the one document the first save created
C8_Witness ==
    /\ last.op = "save" /\ last.call = "update" /\ last.returned = TRUE
    /\ current_conversation_id[last.session] = last.id
    /\ DOMAIN conversations = {last.id}
    /\ nextId = 2

\* ------------------------------------------------------------------ C9
\* C9 as stated: a load of an id whose get returns a document replaces the
\* transcript and the model selection by the document's and makes the id
\* the active id; a load whose get returns absent changes none of them
\* and shows an error.
C9_AsStated ==
    [][\A s \in Sessions :
          last'.op = "load" /\ last'.session = s =>
              LET id == load_conversation[s] IN
              IF last'.returned
              THEN /\ id \in DOMAIN conversations
                   /\ messages'[s] = conversations[id].messages
                   /\ selected_model'[s] = conversations[id].model_used
                   /\ current_conversation_id'[s] = id
                   /\ messages'[s] # <<>>
              ELSE /\ messages'[s] = messages[s]
                   /\ selected_model'[s] = selected_model[s]
                   /\ current_conversation_id'[s] = current_conversation_id[s]
                   /\ last'.err]_vars

\* ----------------------------------------------------------------- C10
\* C10: a delete_active with an active id calls delete on it; if that
\* returns true the transcript and the active id are cleared, if false
\* both stay.  With no active id no delete is called and the store, the
\* transcript and the (absent) active id stay as they were.
C10_DeleteActive ==
    [][\A s \in Sessions :
          last'.op = "delete_active" /\ last'.session = s =>
              LET id == current_conversation_id[s] IN
              IF id # NoId
              THEN /\ last'.call = "delete" /\ last'.id = id
                   /\ IF last'.returned
                      THEN /\ messages'[s] = <<>>
                           /\ current_conversation_id'[s] = NoId
                           /\ id \notin DOMAIN conversations'
                      ELSE /\ messages'[s] = messages[s]
                           /\ current_conversation_id'[s] = id
              ELSE /\ last'.call = "none"
                   /\ conversations' = conversations
                   /\ messages'[s] = messages[s]
                   /\ current_conversation_id'[s] = NoId]_vars

\* a delete_active removed the active conversation and cleared the session
C10_Witness ==
    /\ last.op = "delete_active" /\ last.call = "delete" /\ last.returned = TRUE
    /\ last.id \notin DOMAIN conversations
    /\ messages[last.session] = <<>>
    /\ current_conversation_id[last.session] = NoId

\* ----------------------------------------------------------------- C11
\* the conventional failure value of a store function
FailureValue(call) ==
    CASE call = "create" -> NoId
      [] call = "update" -> FALSE
      [] call = "list"   -> <<>>
      [] call = "get"    -> <<>>
      [] call = "delete" -> FALSE

\* C11: a store function called without a store, or in which the store
\* raises, returns its failure value and leaves the store and every
\* transcript as they were; a save, load or delete_active whose store call
\* fails leaves the transcript as it was; and every send, after a failure
\* or with a failing auto-save, appends its user message to the transcript.
C11_FailurePolicy ==
    [][/\ last'.op = "call" /\ (last'.err \/ ~db) =>
            /\ last'.returned = FailureValue(last'.call)
            /\ conversations' = conversations
            /\ messages' = messages
       /\ last'.op \in {"save", "load", "delete_active"} /\ last'.err =>
            /\ last'.returned = (IF last'.call = "create" THEN NoId ELSE FALSE)
            /\ conversations' = conversations
            /\ messages' = messages
       /\ last'.op = "send" =>
            LET s == last'.session
                n == Len(messages[s])
            IN /\ Len(messages'[s]) > n
               /\ SubSeq(messages'[s], 1, n) = messages[s]
               /\ messages'[s][n + 1].role = "user"
               /\ last'.err => last'.returned = FALSE /\ conversations' = conversations]_vars

\* a send whose auto-save failed: the exchange is in the transcript, not in
\* the store
C11_Witness ==
    /\ last.op = "send" /\ last.call = "update" /\ last.err /\ last.returned = FALSE
    /\ stream.outcome = "completed"
    /\ Len(messages[last.session]) >= 3
    /\ last.id \in DOMAIN conversations
    /\ conversations[last.id].messages # messages[last.session]

\* ----------------------------------------------------------------- C12
\* C12: a send makes one chat request.  If the request fails, before the
\* stream or during it, the fragments yielded are those of the lines
\* received and the transcript gains the user message only; the transcript
\* gains the assistant message, holding the text streamed, exactly when the
\* stream was consumed to completion.
C12_TransportFailure ==
    [][last'.op = "send" =>
          LET s == last'.session
              n == Len(messages[s])
          IN /\ stream'.requests = 1
             /\ stream'.outcome = "request_error" =>
                   /\ stream'.open # "ok" \/ stream'.broken
                   /\ stream'.yielded = ContentOf(stream'.lines)
                   /\ Len(messages'[s]) = n + 1
                   /\ messages'[s][n + 1].role = "user"
             /\ stream'.open # "ok" \/ stream'.broken => stream'.outcome # "completed"
             /\ Len(messages'[s]) = n + 2 <=> stream'.outcome = "completed"
             /\ stream'.outcome = "completed" =>
                   messages'[s][n + 2] = AssistantMessage(stream'.full_response)]_vars

\* the connection broke after a fragment was yielded: no assistant message
C12_Witness ==
    /\ last.op = "send" /\ stream.outcome = "request_error"
    /\ stream.broken /\ stream.yielded # <<>>
    /\ stream.requests = 1
    /\ Len(messages[last.session]) = 1

\* ----------------------------------------------------------------- C13
\* C13: no step changes the user_id of a stored conversation; a step that
\* calls update on an id removes and adds no document, leaves the user_id,
\* model_used and created_at of the document with that id as they were, and
\* leaves every other document as it was.  (save and send reach the store
\* through update, load through get.)
C13_UpdateFrame ==
    [][/\ \A d \in DOMAIN conversations \cap DOMAIN conversations' :
            conversations'[d].user_id = conversations[d].user_id
       /\ last'.call = "update" =>
            /\ DOMAIN conversations' = DOMAIN conversations
            /\ \A d \in DOMAIN conversations :
                  IF d = last'.id
                  THEN /\ conversations'[d].id = conversations[d].id
                       /\ conversations'[d].user_id = conversations[d].user_id
                       /\ conversations'[d].model_used = conversations[d].model_used
                       /\ conversations'[d].created_at = conversations[d].created_at
                  ELSE conversations'[d] = conversations[d]]_vars

\* an update, made by a session of another identity, rewrote one of two
\* documents: its owner is the one it had, the other document is untouched
C13_Witness ==
    /\ last.op = "call" /\ last.call = "update" /\ last.returned = TRUE
    /\ last.id \in DOMAIN conversations
    /\ conversations[last.id].updated_at > conversations[last.id].created_at
    /\ GetUserId(last.session) # conversations[last.id].user_id
    /\ \E d \in DOMAIN conversations :
          d # last.id /\ conversations[d].updated_at = conversations[d].created_at

\* ----------------------------------------------------------------- C14
\* C14: a list with a limit, made with a store that raises nothing,
\* returns the summaries of conversations of the caller's identity only, no
\* conversation twice, as many as the limit allows, each created no
\* earlier than the one after it, and no conversation of the caller left
\* out was created later than one returned.
C14_ListRecent ==
    [][\A s \in Sessions :
          Called(s, "list") /\ db /\ ~last'.err =>
              LET ret == last'.returned
                  limit == last'.id
                  own == {d \in DOMAIN conversations :
                             conversations[d].user_id = GetUserId(s)}
                  listed == {ret[i].id : i \in 1..Len(ret)}
              IN /\ listed \subseteq own
                 /\ \A i \in 1..Len(ret) : ret[i] = Summary(conversations[ret[i].id])
                 /\ \A i, j \in 1..Len(ret) : i < j =>
                       /\ ret[i].id # ret[j].id
                       /\ ret[i].created_at >= ret[j].created_at
                 /\ Len(ret) = IF Cardinality(own) <= limit THEN Cardinality(own)
                               ELSE limit
                 /\ \A d \in own \ listed : \A i \in 1..Len(ret) :
                       conversations[d].created_at <= ret[i].created_at]_vars

\* a list with limit 1 returned the later created of two conversations of
\* the caller, although the earlier one was updated after it
C14_Witness ==
    /\ last.op = "call" /\ last.call = "list" /\ ~last.err
    /\ last.id = 1 /\ Len(last.returned) = 1
    /\ \E d \in DOMAIN conversations :
          /\ d # last.returned[1].id
          /\ conversations[d].user_id = user_id[last.session]
          /\ conversations[d].created_at < last.returned[1].created_at
          /\ conversations[d].updated_at > conversations[last.returned[1].id].updated_at

\* ----------------------------------------------------------------- C15
\* C15: sessions that hold the same conversation update it one after the
\* other: every update of a stored conversation that raises nothing, by a
\* save, an auto-save or another session's update, leaves in the store the
\* transcript it passed and the time of the update, whatever the document
\* held, so the last update applied decides the messages stored.
C15_LastWriteWins ==
    [][(/\ last'.call = "update" /\ ~last'.err
        /\ last'.id \in DOMAIN conversations) =>
          LET id == last'.id
              passed == IF last'.op = "call" THEN OtherTranscript
                        ELSE messages'[last'.session]
          IN /\ last'.returned = TRUE
             /\ conversations'[id].messages = passed
             /\ conversations'[id].updated_at = now
             /\ conversations'[id].updated_at >= conversations[id].updated_at]_vars

\* the followed session holds a conversation it stored; another session's
\* update was applied last, and the store holds that session's transcript
C15_Witness ==
    /\ last.op = "call" /\ last.call = "update" /\ last.returned = TRUE
    /\ last.session \in Others
    /\ \E s \in Observed :
          /\ current_conversation_id[s] = last.id
          /\ messages[s] # OtherTranscript
          /\ Len(messages[s]) > Len(OtherTranscript)
    /\ last.id \in DOMAIN conversations
    /\ conversations[last.id].messages = OtherTranscript

\* ----------------------------------------------------------------- C16
\* the preview the claim describes, for a message and a preview length
Truncated(content, n) ==
    IF Len(content) > n
    THEN [i \in 1..(n + 3) |-> IF i <= n THEN content[i] ELSE "."]
    ELSE content

\* C16: the preview of a listed conversation is made of its first user
\* message: the first 40 characters and the marker "..." if the message is
\* longer than 40 characters, the message itself if not; the label of a
\* user message of chat_app.py likewise, with 30 characters.
C16_Preview ==
    /\ last.op = "history" =>
          \A i \in 1..Len(last.returned) :
              LET msgs == conversations[1].messages
                  first == CHOOSE k \in UserIndexes(msgs) :
                               \A j \in UserIndexes(msgs) : k <= j
              IN last.returned[i] = Truncated(msgs[first].content, PreviewLength)
    /\ last.op = "labels" =>
          \A i \in DOMAIN last.returned :
              last.returned[i] = Truncated(messages[last.session][i].content, LabelLength)

\* the preview of a message of exactly 40 characters: the message itself
C16_Witness ==
    /\ last.op = "history" /\ Len(last.returned) = 1
    /\ Len(conversations[1].messages[1].content) = PreviewLength
    /\ conversations[1].messages[1].role = "user"
    /\ last.returned[1] = conversations[1].messages[1].content

\* ----------------------------------------------------------------- C17
IdleNew(s) == messages[s] = <<>> /\ current_conversation_id[s] = NoId
UnsavedActive(s) == messages[s] # <<>> /\ current_conversation_id[s] = NoId
SavedActive(s) == messages[s] # <<>> /\ current_conversation_id[s] # NoId

\* C17: every session is in exactly one of the states Idle/New,
\* Unsaved-Active and Saved-Active: none has an active id and an empty
\* transcript.
C17_ControllerState ==
    \A s \in Sessions :
        /\ IdleNew(s) \/ UnsavedActive(s) \/ SavedActive(s)
        /\ ~(IdleNew(s) /\ UnsavedActive(s))
        /\ ~(IdleNew(s) /\ SavedActive(s))
        /\ ~(UnsavedActive(s) /\ SavedActive(s))
        /\ ~(current_conversation_id[s] # NoId /\ messages[s] = <<>>)

\* a load made the session Saved-Active on a conversation that another
\* session had rewritten
C17_Witness ==
    /\ last.op = "load" /\ last.returned = TRUE
    /\ SavedActive(last.session)
    /\ current_conversation_id[last.session] = last.id
    /\ messages[last.session] = OtherTranscript
    /\ sent[last.session] = Loaded

\* ----------------------------------------------------------------- C18
IsPrefix(p, q) == Len(p) <= Len(q) /\ SubSeq(q, 1, Len(p)) = p

\* the last run stored or fetched the transcript with success
Reconciled ==
    \/ last.op = "save" /\ last.call = "create" /\ last.returned # NoId
    \/ last.op = "save" /\ last.call = "update" /\ last.returned = TRUE
    \/ last.op = "load" /\ last.returned = TRUE
    \/ last.op = "send" /\ last.call = "update" /\ last.returned = TRUE

\* C18: with one session, whenever the session is Saved-Active the
\* conversation stored under its active id holds a prefix of the session's
\* transcript, and holds the transcript itself right after a successful
\* save, load or auto-save.
C18_StoredPrefix ==
    \A s \in Observed :
        SavedActive(s) =>
            LET id == current_conversation_id[s] IN
            /\ id \in DOMAIN conversations
            /\ IsPrefix(conversations[id].messages, messages[s])
            /\ Reconciled /\ last.session = s =>
                  conversations[id].messages = messages[s]

\* the transcript is ahead of the stored copy: an exchange was made and its
\* auto-save failed
C18_Witness ==
    \E s \in Observed :
        /\ SavedActive(s)
        /\ last.op = "send" /\ last.err
        /\ current_conversation_id[s] \in DOMAIN conversations
        /\ Len(conversations[current_conversation_id[s]].messages) + 2
              = Len(messages[s])

\* ----------------------------------------------------------------- C19
\* the last run was a save or an auto-save of session s that reported success
StoredWithSuccess(s) ==
    /\ last.session = s
    /\ \/ last.op = "save" /\ last.call = "create" /\ last.returned # NoId
       \/ last.op = "save" /\ last.call = "update" /\ last.returned = TRUE
       \/ last.op = "send" /\ last.call = "update" /\ last.returned = TRUE

\* C19 as stated: whatever the sessions do, the active id of a Saved-Active
\* session names a stored conversation, and after a save or auto-save that
\* reported success that conversation holds the session's transcript.
C19_AsStated ==
    \A s \in Sessions :
        SavedActive(s) =>
            /\ current_conversation_id[s] \in DOMAIN conversations
            /\ StoredWithSuccess(s) =>
                  conversations[current_conversation_id[s]].messages = messages[s]

\* ----------------------------------------------------------------- C20
\* C20 as stated: selecting the history entry of the user message at index
\* i leaves a transcript of at most two messages, the first of them that
\* user message, the second, if there is one, the assistant's reply that
\* followed it.
C20_AsStated ==
    [][\A s \in Sessions :
          last'.op = "select" /\ last'.session = s =>
              LET i == last'.id IN
              /\ Len(messages'[s]) \in {1, 2}
              /\ messages'[s][1] = messages[s][i + 1]
              /\ messages'[s][1].role = "user"
              /\ Len(messages'[s]) = 2 =>
                    /\ messages'[s][2] = messages[s][i + 2]
                    /\ messages'[s][2].role = "assistant"]_vars

====
